---------------------------- MODULE Spec2Model ----------------------------
(***************************************************************************)
(* A model of henry (src/henry.go, the latest revision, lines 171-421):    *)
(* main walks a directory (findHenryFiles), analyses every file            *)
(* (analyzeHenryFile: classifyHenryFile, readHenryFileData,                *)
(* readHenryFileMetadata, os.Stat) and builds one HenryDocument per found  *)
(* file (createHenryDocuments, createHenryDocument).                       *)
(*                                                                         *)
(* Strings and byte buffers are sequences of one-character strings.  The   *)
(* TOML decoder, the markdown renderer and the HTML sanitizer are          *)
(* libraries outside the repository: the decoder is modelled on a token    *)
(* alphabet (tomlDecode), the renderer and sanitizer together as an        *)
(* unknown but fixed function (ugc) chosen in the initial state.           *)
(***************************************************************************)
EXTENDS Integers, Sequences, FiniteSets

VARIABLES
    dir,         \* what filepath.Walk will visit, in walk order (the input)
    ugc,         \* the renderer followed by the sanitizer, as a function
    pc,          \* where main is: "walk", "build", "done", "panicked"
    walkPos,     \* entries of dir the walk callback has been called on
    foundFiles,  \* findHenryFiles' foundFiles
    err,         \* the error the walk callback returned (NoErr: nil)
    docPos,      \* files createHenryDocuments has passed to createHenryDocument
    docs,        \* createHenryDocuments' docs
    panic        \* "" or the panic that ended the process

vars == <<dir, ugc, pc, walkPos, foundFiles, err, docPos, docs, panic>>

---------------------------------------------------------------------------
(* Bounds of the model. *)

MaxFiles == 3
MaxPieces == 6
MaxOutLen == 5

---------------------------------------------------------------------------
(* Characters and strings. *)

NL == "\n"
Hyphen == "-"
Delim == <<Hyphen, Hyphen, Hyphen>>
DelimLen == 3
DotMd == <<".", "m", "d">>
NUL == "\\0"

StringsUpTo(alphabet, n) == UNION {[1..k -> alphabet] : k \in 0..n}

HasPrefix(s, prefix) ==
    /\ Len(s) >= Len(prefix)
    /\ SubSeq(s, 1, Len(prefix)) = prefix

HasSuffix(s, suffix) ==
    /\ Len(s) >= Len(suffix)
    /\ SubSeq(s, Len(s) - Len(suffix) + 1, Len(s)) = suffix

TrimPrefix(s, prefix) ==
    IF HasPrefix(s, prefix) THEN SubSeq(s, Len(prefix) + 1, Len(s)) ELSE s

TrimSuffix(s, suffix) ==
    IF HasSuffix(s, suffix) THEN SubSeq(s, 1, Len(s) - Len(suffix)) ELSE s

\* strings.Index for a non-empty sep: the 1-based position of the leftmost
\* occurrence of sep in s, 0 when there is none.
RECURSIVE IndexFrom(_, _, _)
IndexFrom(s, sep, i) ==
    IF i + Len(sep) - 1 > Len(s) THEN 0
    ELSE IF SubSeq(s, i, i + Len(sep) - 1) = sep THEN i
    ELSE IndexFrom(s, sep, i + 1)

Index(s, sep) == IndexFrom(s, sep, 1)

\* strings.genSplit with n = -1: cut at the leftmost occurrence, keep sepSave
\* characters of the separator with the left part, go on with the rest.
RECURSIVE genSplit(_, _, _)
genSplit(s, sep, sepSave) ==
    LET m == Index(s, sep)
    IN  IF m = 0 THEN <<s>>
        ELSE <<SubSeq(s, 1, m - 1 + sepSave)>>
                \o genSplit(SubSeq(s, m + Len(sep), Len(s)), sep, sepSave)

\* A variant of Split that cuts at the first two occurrences only, as
\* strings.SplitN(s, sep, 3) does (used to test what rests on Split).
SplitFirstTwo(s, sep) ==
    LET m1 == Index(s, sep)
        r1 == SubSeq(s, m1 + Len(sep), Len(s))
        m2 == Index(r1, sep)
    IN  IF m1 = 0 THEN <<s>>
        ELSE IF m2 = 0 THEN <<SubSeq(s, 1, m1 - 1), r1>>
        ELSE <<SubSeq(s, 1, m1 - 1), SubSeq(r1, 1, m2 - 1),
               SubSeq(r1, m2 + Len(sep), Len(r1))>>

Split(s, sep) == genSplit(s, sep, 0)

SplitAfter(s, sep) == genSplit(s, sep, Len(sep))

\* strings.Replace(s, old, new, -1): the non-overlapping occurrences of old,
\* leftmost first, each replaced by new; what replaced them is not rescanned.
RECURSIVE Replace(_, _, _)
Replace(s, old, new) ==
    LET m == Index(s, old)
    IN  IF m = 0 THEN s
        ELSE SubSeq(s, 1, m - 1) \o new
                \o Replace(SubSeq(s, m + Len(old), Len(s)), old, new)

RECURSIVE TrimLeft(_, _)
TrimLeft(s, cutset) ==
    IF s /= <<>> /\ Head(s) \in cutset THEN TrimLeft(Tail(s), cutset) ELSE s

RECURSIVE TrimRight(_, _)
TrimRight(s, cutset) ==
    IF s /= <<>> /\ s[Len(s)] \in cutset
    THEN TrimRight(SubSeq(s, 1, Len(s) - 1), cutset)
    ELSE s

\* strings.Trim(s, cutset).
Trim(s, cutset) == TrimRight(TrimLeft(s, cutset), cutset)

---------------------------------------------------------------------------
(* The types of the program. *)

HenryFileTypeUnknown == "unknown"
HenryFileTypeMarkdown == "markdown"

ZeroTime == "zero"

\* A *HenryFileMetadata is a sequence: empty for nil, else the one record
\* pointed to.
NilMetadata == <<>>

HenryFileMetadata ==
    [Title |-> <<>>, Date |-> ZeroTime, Draft |-> FALSE, Summary |-> <<>>]

\* A []byte: its bytes and its capacity.  The nil slice has neither.
NilBytes == [bytes |-> <<>>, cap |-> 0]

\* &HenryFile{Name: file.Name(), Path: path}
HenryFile(name, path) ==
    [Name |-> name, Path |-> path, SubPath |-> <<>>,
     Type |-> HenryFileTypeUnknown, Data |-> NilBytes, Body |-> <<>>,
     HasMetadata |-> FALSE, Metadata |-> NilMetadata, Date |-> ZeroTime]

\* &HenryDocument{}
HenryDocument ==
    [Title |-> <<>>, Content |-> <<>>, ContentRaw |-> <<>>,
     ContentParagraphs |-> <<>>, Date |-> ZeroTime, Draft |-> FALSE,
     Summary |-> <<>>, SummaryRaw |-> <<>>]

NoErr == [kind |-> "nil", name |-> <<>>]
Err(kind, name) == [kind |-> kind, name |-> name]

---------------------------------------------------------------------------
(* The libraries the program calls. *)

\* bytes.MinRead, the capacity ioutil.ReadAll starts its buffer with.
MinRead == 512

\* A variant of ReadAll whose buffer is exactly as long as the content.
ReadAllExact(content) == [bytes |-> content, cap |-> Len(content)]

\* ioutil.ReadAll: the content, in a buffer of at least MinRead bytes whose
\* bytes past the content are zero.
ReadAll(content) ==
    [bytes |-> content,
     cap |-> IF Len(content) < MinRead THEN MinRead ELSE Len(content)]

\* b[0:n] of a []byte and what it holds, or that it is out of range: a slice
\* expression may reach past len(b), up to cap(b).
SliceInRange(b, n) == n <= b.cap
SliceTo(b, n) ==
    [i \in 1..n |-> IF i <= Len(b.bytes) THEN b.bytes[i] ELSE NUL]

\* The TOML documents of the model, token by token: "t" stands for the line
\* title = "T", "s" for summary = "S", "d" for draft = true, "D" for
\* date = <a date>, NL is white space; any other text is no TOML, and
\* so is a key given twice.  toml.Decode parses the whole block before it
\* sets a field, so a failed Decode leaves metadata as it was.
TomlKeys == {"t", "s", "d", "D"}
FrontMatterTime == "frontmatter"

TomlSet(metadata, key) ==
    CASE key = "t" -> [metadata EXCEPT !.Title = <<"T">>]
      [] key = "s" -> [metadata EXCEPT !.Summary = <<"S">>]
      [] key = "d" -> [metadata EXCEPT !.Draft = TRUE]
      [] key = "D" -> [metadata EXCEPT !.Date = FrontMatterTime]
      [] OTHER -> metadata

RECURSIVE TomlUnify(_, _)
TomlUnify(block, metadata) ==
    IF block = <<>> THEN metadata
    ELSE TomlUnify(Tail(block), TomlSet(metadata, Head(block)))

TomlParses(block) ==
    /\ \A i \in 1..Len(block) : block[i] \in TomlKeys \cup {NL}
    /\ \A i, j \in 1..Len(block) :
          (i /= j /\ block[i] \in TomlKeys) => block[i] /= block[j]

\* toml.Decode(block, &metadata)
tomlDecode(block, metadata) ==
    IF TomlParses(block)
    THEN [ok |-> TRUE, metadata |-> TomlUnify(block, metadata)]
    ELSE [ok |-> FALSE, metadata |-> metadata]

\* blackfriday.Run, then bluemonday.UGCPolicy().SanitizeBytes
renderUGC(text) == ugc[text]

---------------------------------------------------------------------------
(* The directory: what the walk meets, in the order it meets it.  The      *)
(* i-th entry is named with the i-th letter, so the names are distinct and *)
(* in the walk's lexical order.                                            *)

Letters == <<"a", "b", "c", "d", "e", "f">>
rootPath == <<"/", "r", "/">>
DotTxt == <<".", "t">>
ModTime == "mtime"
Faults == {"none", "walk", "read", "stat"}

Entry(isDir, ext, content, fault) ==
    [IsDir |-> isDir, Ext |-> ext, Content |-> content, Fault |-> fault]

NameOf(i) == <<Letters[i]>> \o dir[i].Ext
PathOf(i) == rootPath \o NameOf(i)

---------------------------------------------------------------------------
(* The program's functions.  One that can fail returns its file with err   *)
(* (NoErr: nil) and panic ("": none).                                      *)

Returns(file, e, p) == [file |-> file, err |-> e, panic |-> p]

classifyHenryFile(file, root) ==
    [file EXCEPT
        !.Type = IF HasSuffix(file.Path, DotMd)
                 THEN HenryFileTypeMarkdown
                 ELSE HenryFileTypeUnknown,
        !.SubPath = TrimSuffix(TrimPrefix(file.Path, root), file.Name)]

readHenryFileData(file, entry) ==
    IF entry.Fault = "read"
    THEN Returns(file, Err("read", file.Name), "")
    ELSE Returns([file EXCEPT !.Data = ReadAll(entry.Content)], NoErr, "")

readHenryFileMetadata(file) ==
    IF Len(file.Data.bytes) = 0 THEN Returns(file, NoErr, "")
    ELSE
    LET metadata == HenryFileMetadata
        file1 == [file EXCEPT !.HasMetadata = FALSE, !.Metadata = <<metadata>>]
    IN
    IF ~SliceInRange(file.Data, DelimLen)
    THEN Returns(file1, NoErr, "slice bounds out of range")
    ELSE IF SliceTo(file.Data, DelimLen) /= Delim
    THEN Returns([file1 EXCEPT !.Body = file.Data.bytes], NoErr, "")
    ELSE
    LET headerParts == Split(file.Data.bytes, Delim)
    IN
    IF Len(headerParts) < 2
    THEN Returns(file1, NoErr, "index out of range")
    ELSE
    LET decoded == tomlDecode(headerParts[2], metadata)
        file2 == [file1 EXCEPT !.Metadata = <<decoded.metadata>>]
    IN
    IF ~decoded.ok
    THEN Returns(file2, Err("metadata", file.Name), "")
    ELSE IF Len(headerParts) < 3
    THEN Returns([file2 EXCEPT !.HasMetadata = TRUE], NoErr,
                 "index out of range")
    ELSE Returns([file2 EXCEPT !.HasMetadata = TRUE,
                               !.Body = headerParts[3]], NoErr, "")

analyzeHenryFile(file, root, entry) ==
    LET classified == classifyHenryFile(file, root)
        read == readHenryFileData(classified, entry)
        meta == readHenryFileMetadata(read.file)
        analyzed ==
            IF classified.Type /= HenryFileTypeMarkdown
            THEN Returns(classified, NoErr, "")
            ELSE IF read.err /= NoErr THEN read
            ELSE meta
    IN  IF analyzed.err /= NoErr \/ analyzed.panic /= "" THEN analyzed
        ELSE IF entry.Fault = "stat"
        THEN Returns(analyzed.file, Err("stat", file.Name), "")
        ELSE Returns([analyzed.file EXCEPT !.Date = ModTime], NoErr, "")

\* The body of the function findHenryFiles hands to filepath.Walk, called on
\* the i-th entry.
walkFn(i) ==
    LET henryFile == HenryFile(NameOf(i), PathOf(i))
    IN  IF dir[i].Fault = "walk"
        THEN Returns(henryFile, Err("walk", NameOf(i)), "")
        ELSE IF dir[i].IsDir THEN Returns(henryFile, NoErr, "")
        ELSE analyzeHenryFile(henryFile, rootPath, dir[i])

\* content: the sanitized output with "\n\n" replaced and "\n" trimmed.
docContent(h) == Trim(Replace(h, <<NL, NL>>, <<NL>>), {NL})

RECURSIVE TrimEach(_, _)
TrimEach(parts, cutset) ==
    IF parts = <<>> THEN <<>>
    ELSE <<Trim(Head(parts), cutset)>> \o TrimEach(Tail(parts), cutset)

\* A variant of docParagraphs that forgets to trim.
docParagraphsUntrimmed(content) == SplitAfter(content, <<NL>>)

\* doc.ContentParagraphs
docParagraphs(content) == TrimEach(SplitAfter(content, <<NL>>), {NL})

\* A variant of docSummary that collapses the summary as it does the content.
docSummaryCollapsed(doc, metadata) ==
    IF metadata.Summary /= <<>>
    THEN [doc EXCEPT !.Summary = docContent(renderUGC(metadata.Summary)),
                     !.SummaryRaw = metadata.Summary]
    ELSE IF Len(doc.ContentParagraphs) > 0
    THEN [doc EXCEPT !.Summary = doc.ContentParagraphs[1]]
    ELSE doc

\* doc.Summary and doc.SummaryRaw
docSummary(doc, metadata) ==
    IF metadata.Summary /= <<>>
    THEN [doc EXCEPT !.Summary = renderUGC(metadata.Summary),
                     !.SummaryRaw = metadata.Summary]
    ELSE IF Len(doc.ContentParagraphs) > 0
    THEN [doc EXCEPT !.Summary = doc.ContentParagraphs[1]]
    ELSE doc

\* Returns a document (as file), or panics where it reads through a nil
\* file.Metadata.
createHenryDocument(file) ==
    LET h == renderUGC(file.Body)
        content == docContent(h)
        doc1 == [HenryDocument EXCEPT
                    !.Content = content,
                    !.ContentRaw = file.Body,
                    !.ContentParagraphs = docParagraphs(content)]
    IN  IF file.Metadata = NilMetadata
        THEN Returns(doc1, NoErr, "nil pointer dereference")
        ELSE
        LET metadata == file.Metadata[1]
            doc2 == [doc1 EXCEPT
                        !.Title = IF metadata.Title /= <<>>
                                  THEN metadata.Title ELSE file.Name,
                        !.Date = IF metadata.Date /= ZeroTime
                                 THEN metadata.Date ELSE file.Date,
                        !.Draft = IF metadata.Draft
                                  THEN metadata.Draft ELSE FALSE]
        IN  Returns(docSummary(doc2, metadata), NoErr, "")

---------------------------------------------------------------------------
(* The steps of main. *)

\* filepath.Walk calls walkFn on the next entry; an error ends the walk.
Walk ==
    /\ pc = "walk" /\ err = NoErr /\ walkPos < Len(dir)
    /\ LET r == walkFn(walkPos + 1)
       IN  /\ walkPos' = walkPos + 1
           /\ err' = r.err
           /\ panic' = r.panic
           /\ pc' = IF r.panic /= "" THEN "panicked" ELSE pc
           /\ foundFiles' =
                 IF r.err = NoErr /\ r.panic = "" /\ ~dir[walkPos + 1].IsDir
                 THEN Append(foundFiles, r.file)
                 ELSE foundFiles
    /\ UNCHANGED <<dir, ugc, docPos, docs>>

\* findHenryFiles returns to main, which panics on an error.
Found ==
    /\ pc = "walk" /\ (err /= NoErr \/ walkPos = Len(dir))
    /\ pc' = IF err /= NoErr THEN "panicked" ELSE "build"
    /\ panic' = IF err /= NoErr THEN "error" ELSE panic
    /\ UNCHANGED <<dir, ugc, walkPos, foundFiles, err, docPos, docs>>

\* One turn of createHenryDocuments' loop.
Build ==
    /\ pc = "build" /\ docPos < Len(foundFiles)
    /\ LET r == createHenryDocument(foundFiles[docPos + 1])
       IN  /\ docPos' = docPos + 1
           /\ panic' = r.panic
           /\ pc' = IF r.panic /= "" THEN "panicked" ELSE pc
           /\ docs' = IF r.err = NoErr /\ r.panic = ""
                      THEN Append(docs, r.file)
                      ELSE docs
    /\ UNCHANGED <<dir, ugc, walkPos, foundFiles, err>>

\* createHenryDocuments returns its docs with a nil error; main prints them.
Created ==
    /\ pc = "build" /\ docPos = Len(foundFiles)
    /\ pc' = "done"
    /\ UNCHANGED <<dir, ugc, walkPos, foundFiles, err, docPos, docs, panic>>

Next == Walk \/ Found \/ Build \/ Created

---------------------------------------------------------------------------
(* The initial states: a directory of at most MaxFiles entries and a       *)
(* renderer, before main's first statement.                                *)

\* The texts main will hand to the renderer in a run over directory d.
RenderInputs(d) ==
    LET analyzed(i) ==
            analyzeHenryFile(HenryFile(<<Letters[i]>> \o d[i].Ext,
                                       rootPath \o <<Letters[i]>> \o d[i].Ext),
                             rootPath, d[i]).file
        files == {i \in 1..Len(d) : ~d[i].IsDir}
    IN  {analyzed(i).Body : i \in files}
        \cup {analyzed(i).Metadata[1].Summary :
                 i \in {j \in files :
                           /\ analyzed(j).Metadata /= NilMetadata
                           /\ analyzed(j).Metadata[1].Summary /= <<>>}}

InitWith(entries, counts, outputs) ==
    /\ dir \in UNION {[1..k -> entries] : k \in counts}
    /\ ugc \in [RenderInputs(dir) -> outputs]
    /\ pc = "walk"
    /\ walkPos = 0
    /\ foundFiles = <<>>
    /\ err = NoErr
    /\ docPos = 0
    /\ docs = <<>>
    /\ panic = ""

\* File contents with and without front matter, well formed and not.
Contents ==
    {<<>>,
     <<"x">>,
     <<"-", "-", "-", "t", "-", "-", "-", "x">>,
     <<"-", "-", "-", "s", "d", "D", "-", "-", "-", "x">>,
     <<"-", "-", "-", "x", "-", "-", "-", "x">>,
     <<"-", "-", "-">>}

Entries ==
    {Entry(TRUE, <<>>, <<>>, "none")}
    \cup {Entry(FALSE, ext, c, "none") : ext \in {DotMd, DotTxt}, c \in Contents}
    \cup {Entry(FALSE, DotMd, <<"x">>, f) : f \in Faults \ {"none"}}

Outputs == {<<"p">>, <<"p", NL, NL, "p", NL>>}

Init == InitWith(Entries, 0..MaxFiles, Outputs)

Spec == Init /\ [][Next]_vars

\* One markdown file, of every content made of at most MaxPieces pieces: a
\* hyphen, a whole delimiter, a TOML title line or other text.
Pieces == {<<Hyphen>>, Delim, <<"t">>, <<"x">>}

RECURSIVE Flatten(_)
Flatten(pieces) ==
    IF pieces = <<>> THEN <<>> ELSE Head(pieces) \o Flatten(Tail(pieces))

MetaEntries ==
    {Entry(FALSE, DotMd, Flatten(ps), "none") :
        ps \in StringsUpTo(Pieces, MaxPieces)}

InitMeta == InitWith(MetaEntries, {1}, {<<"p">>})

SpecMeta == InitMeta /\ [][Next]_vars

\* One markdown file, and a renderer of every output of at most MaxOutLen
\* characters.
DocEntries ==
    {Entry(FALSE, DotMd, c, "none") :
        c \in {<<"x">>,
               <<"-", "-", "-", "t", "d", "D", "-", "-", "-", "x">>,
               <<"-", "-", "-", "s", "-", "-", "-", "x">>}}

InitDoc == InitWith(DocEntries, {1}, StringsUpTo({NL, "p"}, MaxOutLen))

SpecDoc == InitDoc /\ [][Next]_vars

---------------------------------------------------------------------------
(* What the properties below speak of, read off the directory (the input)  *)
(* and not off the program's own parse.                                    *)

IsMarkdownEntry(i) ==
    ~dir[i].IsDir /\ dir[i].Fault = "none" /\ dir[i].Ext = DotMd

StartsWithDelim(content) == HasPrefix(content, Delim)

\* The text after the opening delimiter; the front-matter block, up to the
\* second occurrence of the delimiter; the text after that occurrence.
AfterFirst(content) == SubSeq(content, DelimLen + 1, Len(content))
HasSecondDelim(content) == Index(AfterFirst(content), Delim) /= 0
BlockOf(content) ==
    IF HasSecondDelim(content)
    THEN SubSeq(AfterFirst(content), 1, Index(AfterFirst(content), Delim) - 1)
    ELSE AfterFirst(content)
AfterSecond(content) ==
    SubSeq(AfterFirst(content),
           Index(AfterFirst(content), Delim) + DelimLen,
           Len(AfterFirst(content)))
UpToDelim(text) ==
    IF Index(text, Delim) = 0 THEN text
    ELSE SubSeq(text, 1, Index(text, Delim) - 1)

WellFormed(content) ==
    /\ StartsWithDelim(content)
    /\ HasSecondDelim(content)
    /\ TomlParses(BlockOf(content))

Unparsable(content) ==
    StartsWithDelim(content) /\ ~TomlParses(BlockOf(content))

\* The file record findHenryFiles kept for the i-th entry, if it kept one.
Kept(i) == {k \in 1..Len(foundFiles) : foundFiles[k].Path = PathOf(i)}

RECURSIVE Join(_, _)
Join(parts, sep) ==
    IF parts = <<>> THEN <<>>
    ELSE IF Len(parts) = 1 THEN parts[1]
    ELSE parts[1] \o sep \o Join(Tail(parts), sep)

Contains(s, sub) == Index(s, sub) /= 0

---------------------------------------------------------------------------
(* C5 *)

\* C5: a markdown file whose content does not start with "---" (a file of
\* fewer than 3 bytes and an empty one included) comes out of
\* readHenryFileMetadata with HasMetadata false and Body the whole content.
C5_NoDelimiterBodyIsRaw ==
    \A i \in 1..walkPos :
        (IsMarkdownEntry(i) /\ ~StartsWithDelim(dir[i].Content)) =>
            /\ Kept(i) /= {}
            /\ \A k \in Kept(i) :
                  /\ ~foundFiles[k].HasMetadata
                  /\ foundFiles[k].Body = dir[i].Content

\* A file of one or two bytes went through readHenryFileMetadata.
C5_Witness ==
    \E i \in 1..walkPos :
        /\ IsMarkdownEntry(i)
        /\ Len(dir[i].Content) \in {1, 2}
        /\ dir[i].Content[1] = Hyphen
        /\ \E k \in Kept(i) : foundFiles[k].Body = dir[i].Content

---------------------------------------------------------------------------
(* C3 *)

\* C3, as claimed: a file with a well-formed front-matter block comes out
\* with HasMetadata true and Body the whole text after the second "---",
\* also when that text holds a "---" itself.
C3_BodyIsAllAfterSecondDelim ==
    \A i \in 1..walkPos :
        (IsMarkdownEntry(i) /\ WellFormed(dir[i].Content)) =>
            /\ Kept(i) /= {}
            /\ \A k \in Kept(i) :
                  /\ foundFiles[k].HasMetadata
                  /\ foundFiles[k].Body = AfterSecond(dir[i].Content)

\* C3, amended: a file with a well-formed front-matter block comes out with
\* HasMetadata true and Body the text after the second "---" up to the next
\* "---", which is all of it only when it holds no "---".
C3_BodyIsUpToThirdDelim ==
    \A i \in 1..walkPos :
        (IsMarkdownEntry(i) /\ WellFormed(dir[i].Content)) =>
            /\ Kept(i) /= {}
            /\ \A k \in Kept(i) :
                  /\ foundFiles[k].HasMetadata
                  /\ foundFiles[k].Body = UpToDelim(AfterSecond(dir[i].Content))

\* A well-formed file whose text after the front matter holds a "---" and
\* more text after it was parsed.
C3_Witness ==
    \E i \in 1..walkPos :
        /\ IsMarkdownEntry(i)
        /\ WellFormed(dir[i].Content)
        /\ BlockOf(dir[i].Content) /= <<>>
        /\ Contains(AfterSecond(dir[i].Content), Delim)
        /\ UpToDelim(AfterSecond(dir[i].Content)) /= <<>>
        /\ \E k \in Kept(i) :
              /\ foundFiles[k].HasMetadata
              /\ foundFiles[k].Metadata[1].Title /= <<>>
              /\ foundFiles[k].Body /= AfterSecond(dir[i].Content)

---------------------------------------------------------------------------
(* C10 *)

\* C10: on a buffer that starts with "---", readHenryFileMetadata ends with
\* HasMetadata true and Body set or with a metadata parse error; it never
\* indexes past the end of the parts of the split.
C10_TotalOnDelimiterInput ==
    \A i \in 1..walkPos :
        (IsMarkdownEntry(i) /\ StartsWithDelim(dir[i].Content)) =>
            /\ panic /= "index out of range"
            /\ \/ \E k \in Kept(i) : foundFiles[k].HasMetadata
               \/ i = walkPos /\ err = Err("metadata", NameOf(i))

---------------------------------------------------------------------------
(* C2 *)

\* C2: every markdown file record that readHenryFileMetadata processed
\* without error, one with an empty buffer included, has a non-nil Metadata,
\* so createHenryDocument never reads through a nil Metadata of one.
C2_MarkdownMetadataNeverNil ==
    /\ \A k \in 1..Len(foundFiles) :
          foundFiles[k].Type = HenryFileTypeMarkdown =>
              foundFiles[k].Metadata /= NilMetadata
    /\ \A k \in 1..docPos :
          (foundFiles[k].Type = HenryFileTypeMarkdown /\ k = docPos) =>
              panic /= "nil pointer dereference"

---------------------------------------------------------------------------
(* C4 *)

\* C4: every file record createHenryDocuments passes to createHenryDocument
\* has Type markdown, and there are no more documents than markdown files
\* passed.
C4_OnlyMarkdownIsBuilt ==
    /\ \A k \in 1..docPos : foundFiles[k].Type = HenryFileTypeMarkdown
    /\ Len(docs) <= Cardinality({k \in 1..docPos :
                        foundFiles[k].Type = HenryFileTypeMarkdown})

---------------------------------------------------------------------------
(* C8 *)

\* C8: a file record that reaches createHenryDocument with HasMetadata false
\* has all metadata fields at their defaults and gives a document titled
\* with the file name, dated with the modification time and not a draft; and
\* a file whose metadata block failed to parse is no file record at all.
C8_NoMetadataMeansDefaults ==
    /\ \A k \in 1..docPos :
          ~foundFiles[k].HasMetadata =>
              /\ foundFiles[k].Metadata = <<HenryFileMetadata>>
              /\ ~(k = docPos /\ panic /= "")
              /\ k <= Len(docs)
              /\ docs[k].Title = foundFiles[k].Name
              /\ docs[k].Date = foundFiles[k].Date
              /\ docs[k].Draft = FALSE
    /\ \A i \in 1..walkPos :
          (IsMarkdownEntry(i) /\ Unparsable(dir[i].Content)) => Kept(i) = {}

---------------------------------------------------------------------------
(* C1 *)

\* The markdown files the batch is to make documents of, in walk order, and
\* the body each has.
SoundContent(content) ==
    \/ content /= <<>> /\ ~StartsWithDelim(content)
    \/ WellFormed(content)

SoundEntries == SelectSeq([i \in 1..Len(dir) |-> i],
                          LAMBDA i : SoundContent(dir[i].Content))

BodyOfSound(content) ==
    IF StartsWithDelim(content) THEN UpToDelim(AfterSecond(content))
    ELSE content

\* C1: in a directory of markdown files some of which have an unparsable
\* metadata block, those alone are left out: the run does not stop early,
\* and it ends with one document for every other file, in their order.
C1_BatchSurvivesBadMetadata ==
    (\A i \in 1..Len(dir) :
        /\ IsMarkdownEntry(i)
        /\ SoundContent(dir[i].Content) \/ Unparsable(dir[i].Content))
    =>
        /\ pc /= "panicked"
        /\ pc = "done" =>
              /\ Len(docs) = Len(SoundEntries)
              /\ \A k \in 1..Len(docs) :
                    docs[k].ContentRaw = BodyOfSound(dir[SoundEntries[k]].Content)

---------------------------------------------------------------------------
(* C6 *)

\* C6: the Content of a document holds no two newlines in a row and neither
\* starts nor ends with a newline.
C6_ContentHasNoBlankLine ==
    \A k \in 1..Len(docs) :
        /\ ~Contains(docs[k].Content, <<NL, NL>>)
        /\ ~HasPrefix(docs[k].Content, <<NL>>)
        /\ ~HasSuffix(docs[k].Content, <<NL>>)

---------------------------------------------------------------------------
(* C7 *)

\* createHenryDocument returns no error, so the k-th document is the k-th
\* found file's.
\* C7: when the metadata summary is empty, Summary is the first entry of
\* ContentParagraphs and SummaryRaw is empty; when it is not, SummaryRaw is
\* the metadata summary and Summary is what the renderer and sanitizer make
\* of it, newlines not collapsed.
C7_SummaryFallback ==
    \A k \in 1..Len(docs) :
        LET summary == foundFiles[k].Metadata[1].Summary
        IN  IF summary = <<>>
            THEN /\ Len(docs[k].ContentParagraphs) >= 1
                 /\ docs[k].Summary = docs[k].ContentParagraphs[1]
                 /\ docs[k].SummaryRaw = <<>>
            ELSE /\ docs[k].SummaryRaw = summary
                 /\ docs[k].Summary = ugc[summary]

\* A document without a metadata summary, of two paragraphs or more, took
\* its first paragraph as Summary.
C7_Witness ==
    \E k \in 1..Len(docs) :
        /\ foundFiles[k].Metadata[1].Summary = <<>>
        /\ Len(docs[k].ContentParagraphs) >= 2
        /\ docs[k].ContentParagraphs[1] /= <<>>
        /\ docs[k].Summary = docs[k].ContentParagraphs[1]

---------------------------------------------------------------------------
(* C9 *)

\* C9: ContentParagraphs has at least one entry, no entry holds a newline,
\* and its entries joined with single newlines are Content.
C9_ParagraphsPartitionContent ==
    \A k \in 1..Len(docs) :
        /\ Len(docs[k].ContentParagraphs) >= 1
        /\ \A j \in 1..Len(docs[k].ContentParagraphs) :
              ~Contains(docs[k].ContentParagraphs[j], <<NL>>)
        /\ Join(docs[k].ContentParagraphs, <<NL>>) = docs[k].Content

\* A document whose Content has a blank line between two paragraphs was
\* split.
C9_Witness ==
    \E k \in 1..Len(docs) :
        /\ Contains(docs[k].Content, <<NL, NL>>)
        /\ Len(docs[k].ContentParagraphs) >= 3
        /\ \E j \in 1..Len(docs[k].ContentParagraphs) :
              docs[k].ContentParagraphs[j] = <<>>

===========================================================================
